---------------------------- MODULE Spec2Model ----------------------------
(* Model of python/tvm/relay/backend/executor_factory.py:                   *)
(* AOTExecutorFactoryModule and GraphExecutorFactoryModule, one factory     *)
(* object per behaviour, driven by a caller that constructs it once and     *)
(* then calls its methods in any order.                                     *)
EXTENDS Naturals, Sequences, FiniteSets

VARIABLES cls, self, factory, calls, call, ret, given, registered

vars == <<cls, self, factory, calls, call, ret, given, registered>>

-----------------------------------------------------------------------------
(* Python values: a type tag, a content, a copy generation (a converted     *)
(* array is a new object holding the same content) and, for a dict, its     *)
(* items in insertion order.                                                *)

V(t, d) == [type |-> t, data |-> d, copy |-> 0, items |-> <<>>]

Str(s) == V("str", s)

Dict(items) == [type |-> "dict", data |-> "", copy |-> 0, items |-> items]

None == V("NoneType", "None")

Omitted == V("<omitted>", "")

Unset == V("<unset>", "")

(* Bound: how many calls to the live module one behaviour makes. *)
MaxModuleCalls == 1

Keys == {"w", "b"}

GoodValues == {V("list", "[1.0, 2.0]"), V("NDArray", "[3.0]")}

BadValues == {V("Array", "tvm.ir.Array")}

ParamValues == GoodValues \cup BadValues

Entries == {<<Str(k), v>> : k \in Keys, v \in ParamValues}

UniqueKeys(items) ==
    \A i, j \in 1..Len(items) : items[i][1] = items[j][1] => i = j

ItemSeqs ==
    {s \in UNION {[1..n -> Entries] : n \in 0..Cardinality(Keys)} : UniqueKeys(s)}

(* The params argument: a dict of str to tensor-like value, or not a mapping. *)
ParamArgs == {Dict(s) : s \in ItemSeqs} \cup {None}

IrMods == {V("IRModule", "mod")}

Targets == {V("Target", "llvm")}

GraphStrs == {Str("{\"nodes\":[]}"), Str("{\"nodes\":[1]}"), V("int", "7")}

Runners == {V("PrimFunc", "tvm__run_func"), V("PrimFunc", "main"), Str("main")}

Libs == {V("Module", "lib_a"), V("Module", "lib_b")}

LibNames == {Str("lib0")}

FileNames == {Str("deploy.so"), Str("/no/such/dir/deploy.so")}

FCompiles == {Omitted, V("function", "cc.create_shared")}

AddonsArgs == {Omitted, V("list", "[addon.o]")}

Options == {Dict(<<>>), Dict(<<<<Str("options"), V("list", "[-O2]")>>>>)}

ItemKeys == {Str("default"), Str("lib0"), Str("missing")}

Attrs ==
    {"ir_mod", "target", "runner_func", "module", "graph", "lib",
     "libmod_name", "params", "iter_cnt", "internal_repr"}

NoAttrs == [a \in Attrs |-> Unset]

-----------------------------------------------------------------------------
(* Results of an operation, as the caller sees them. *)

Ok(v) == [status |-> "return", exc |-> "", val |-> v]

Err(e) == [status |-> "raise", exc |-> e, val |-> None]

Result(op, o) == [op |-> op, status |-> o.status, exc |-> o.exc, val |-> o.val]

Return(op, v) == Result(op, Ok(v))

Raise(op, e) == Result(op, Err(e))

Event(fn, recv, args, kwargs) ==
    [fn |-> fn, recv |-> recv, args |-> args, kwargs |-> kwargs]

Call(op, args, kwargs) == [op |-> op, args |-> args, kwargs |-> kwargs]

ModuleFns == {"export_library", "__getitem__"}

IsModuleCall(e) == e.fn \in ModuleFns

ModuleCalls == SelectSeq(calls, IsModuleCall)

-----------------------------------------------------------------------------
(* External collaborators: the native array conversion, the global function *)
(* registry, the registered create function and the live module it returns. *)

CreateName == Str("tvm.graph_executor_factory.create")

NoKw == Dict(<<>>)

(* ndarray.array(v): a new array holding v's content; fails on a value that *)
(* is no tensor-like value.                                                 *)
Convertible(v) == v.type \in {"list", "NDArray"}

NdArray(v) == [type |-> "NDArray", data |-> v.data, copy |-> v.copy + 1, items |-> <<>>]

(* The handle the create function returns: one live module per library. *)
CreateModule(graph_str, libmod, libmod_name, args) ==
    V("GraphExecutorFactory", libmod.data)

(* The live module's export operation (a recording fake): fails on a path   *)
(* it cannot write, otherwise returns a value that depends on the module.   *)
ModuleExport(m, file_name, fcompile, addons, kwargs) ==
    IF file_name.data = "/no/such/dir/deploy.so" THEN Err("RuntimeError")
    ELSE IF m.data = "lib_a" THEN Ok(None)
    ELSE Ok(file_name)

(* The live module's indexed access: the entry points it holds. *)
ModuleGetItem(m, item) ==
    IF item.data = "default" THEN Ok(V("PackedFunc", "default"))
    ELSE IF item.data = "lib0" /\ m.data = "lib_b" THEN Ok(V("PackedFunc", "lib0"))
    ELSE Err("AttributeError")

-----------------------------------------------------------------------------
(* The constructors' checks and the parameter loop. *)

(* Variant: the string check accepts every value. *)
IsString_any(v) == TRUE

IsString(v) == v.type = "str"

(* Variant: the runner check accepts every value. *)
IsPrimFunc_any(v) == TRUE

IsPrimFunc(v) == v.type = "PrimFunc"

(* How many values the loop hands to ndarray.array: all of them, or up to   *)
(* and including the first one the conversion rejects.                      *)
Bad(items) == {i \in 1..Len(items) : ~Convertible(items[i][2])}

AllConvertible(items) == Bad(items) = {}

(* Variant: the loop goes on after a conversion has failed. *)
NConverted_all(items) == Len(items)

NConverted(items) ==
    IF AllConvertible(items) THEN Len(items)
    ELSE CHOOSE i \in Bad(items) : \A j \in Bad(items) : i <= j

ConvEvents(items) ==
    [i \in 1..NConverted(items) |-> Event("ndarray.array", None, <<items[i][2]>>, NoKw)]

(* Variant: the loop appends the value as supplied, unconverted. *)
RECURSIVE FlattenArgs_raw(_)
FlattenArgs_raw(items) ==
    IF items = <<>> THEN <<>>
    ELSE <<items[1][1], items[1][2]>> \o FlattenArgs_raw(Tail(items))

RECURSIVE FlattenArgs(_)
FlattenArgs(items) ==
    IF items = <<>> THEN <<>>
    ELSE <<items[1][1], NdArray(items[1][2])>> \o FlattenArgs(Tail(items))

GraphCreateArgs(graph_str, libmod, libmod_name, args) ==
    <<graph_str, libmod, libmod_name>> \o args

Given(ir_mod, target, repr, libmod, libmod_name, params) ==
    [ir_mod |-> ir_mod, target |-> target, repr |-> repr, libmod |-> libmod,
     libmod_name |-> libmod_name, params |-> params]

Init ==
    /\ cls = ""
    /\ self = NoAttrs
    /\ factory = FALSE
    /\ calls = <<>>
    /\ call = Call("", <<>>, NoKw)
    /\ ret = Return("", None)
    /\ given = Given(None, None, None, None, None, None)
    /\ registered \in BOOLEAN

AOTInit(ir_mod, target, runner_function, libmod, libmod_name, params) ==
    /\ cls = ""
    /\ cls' = "AOT"
    /\ given' = Given(ir_mod, target, runner_function, libmod, libmod_name, params)
    /\ call' = Call("__init__",
                    <<ir_mod, target, runner_function, libmod, libmod_name, params>>, NoKw)
    /\ registered' = registered
    /\ IF ~IsPrimFunc(runner_function)
       THEN /\ calls' = calls
            /\ self' = self
            /\ factory' = FALSE
            /\ ret' = Raise("__init__", "AssertionError")
       ELSE IF params.type # "dict"
       THEN /\ calls' = calls
            /\ self' = self
            /\ factory' = FALSE
            /\ ret' = Raise("__init__", "AttributeError")
       ELSE IF ~AllConvertible(params.items)
       THEN /\ calls' = calls \o ConvEvents(params.items)
            /\ self' = self
            /\ factory' = FALSE
            /\ ret' = Raise("__init__", "ConversionError")
       ELSE /\ calls' = calls \o ConvEvents(params.items)
            /\ self' = [self EXCEPT !.ir_mod = ir_mod, !.target = target,
                                    !.runner_func = runner_function, !.lib = libmod,
                                    !.libmod_name = libmod_name, !.params = params,
                                    !.iter_cnt = V("int", "0")]
            /\ factory' = TRUE
            /\ ret' = Return("__init__", V("AOTExecutorFactoryModule", "self"))

AOT_init ==
    \E ir_mod \in IrMods, target \in Targets, runner_function \in Runners,
       libmod \in Libs, libmod_name \in LibNames, params \in ParamArgs :
        AOTInit(ir_mod, target, runner_function, libmod, libmod_name, params)

GraphInit(ir_mod, target, graph_str, libmod, libmod_name, params, accepts) ==
    LET lookup == Event("get_global_func", None, <<CreateName>>, NoKw)
        create == Event(CreateName.data, None,
                        GraphCreateArgs(graph_str, libmod, libmod_name,
                                        FlattenArgs(params.items)), NoKw)
    IN
    /\ cls = ""
    /\ cls' = "Graph"
    /\ given' = Given(ir_mod, target, graph_str, libmod, libmod_name, params)
    /\ call' = Call("__init__",
                    <<ir_mod, target, graph_str, libmod, libmod_name, params>>, NoKw)
    /\ registered' = registered
    /\ IF ~IsString(graph_str)
       THEN /\ calls' = calls
            /\ self' = self
            /\ factory' = FALSE
            /\ ret' = Raise("__init__", "AssertionError")
       ELSE IF ~registered
       THEN /\ calls' = calls \o <<lookup>>
            /\ self' = self
            /\ factory' = FALSE
            /\ ret' = Raise("__init__", "ValueError")
       ELSE IF params.type # "dict"
       THEN /\ calls' = calls \o <<lookup>>
            /\ self' = self
            /\ factory' = FALSE
            /\ ret' = Raise("__init__", "AttributeError")
       ELSE IF ~AllConvertible(params.items)
       THEN /\ calls' = calls \o <<lookup>> \o ConvEvents(params.items)
            /\ self' = self
            /\ factory' = FALSE
            /\ ret' = Raise("__init__", "ConversionError")
       ELSE IF ~accepts
       THEN /\ calls' = calls \o <<lookup>> \o ConvEvents(params.items) \o <<create>>
            /\ self' = [self EXCEPT !.ir_mod = ir_mod, !.target = target]
            /\ factory' = FALSE
            /\ ret' = Raise("__init__", "TVMError")
       ELSE /\ calls' = calls \o <<lookup>> \o ConvEvents(params.items) \o <<create>>
            /\ self' = [self EXCEPT !.ir_mod = ir_mod, !.target = target,
                                    !.module = CreateModule(graph_str, libmod, libmod_name,
                                                            FlattenArgs(params.items)),
                                    !.graph = graph_str, !.lib = libmod,
                                    !.libmod_name = libmod_name, !.params = params,
                                    !.iter_cnt = V("int", "0")]
            /\ factory' = TRUE
            /\ ret' = Return("__init__", V("GraphExecutorFactoryModule", "self"))

Graph_init ==
    \E ir_mod \in IrMods, target \in Targets, graph_str \in GraphStrs, libmod \in Libs,
       libmod_name \in LibNames, params \in ParamArgs, accepts \in BOOLEAN :
        GraphInit(ir_mod, target, graph_str, libmod, libmod_name, params, accepts)

-----------------------------------------------------------------------------
(* The methods. Reading an attribute that was never assigned raises.        *)

GetAttr(a) == IF self[a] = Unset THEN Err("AttributeError") ELSE Ok(self[a])

(* A defaulted parameter: None when the caller omits it. *)
Default(v) == IF v = Omitted THEN None ELSE v

(* A method that only reads the object and returns. *)
Reads(op, outcome) ==
    /\ factory
    /\ call' = Call(op, <<>>, NoKw)
    /\ ret' = Result(op, outcome)
    /\ UNCHANGED <<cls, self, factory, calls, given, registered>>

(* Variant: the stored mapping holds the converted arrays. *)
get_params_converted ==
    Reads("get_params",
          Ok(Dict([i \in 1..Len(self.params.items) |->
                     <<self.params.items[i][1], NdArray(self.params.items[i][2])>>])))

get_params == Reads("get_params", GetAttr("params"))

get_internal_repr ==
    Reads("get_internal_repr",
          IF cls = "AOT" THEN GetAttr("runner_func") ELSE GetAttr("graph"))

(* Variant: the getter counts its calls in iter_cnt. *)
get_lib_counting ==
    /\ factory
    /\ call' = Call("get_lib", <<>>, NoKw)
    /\ ret' = Result("get_lib", GetAttr("lib"))
    /\ self' = [self EXCEPT !.iter_cnt = V("int", "1")]
    /\ UNCHANGED <<cls, factory, calls, given, registered>>

get_lib == Reads("get_lib", GetAttr("lib"))

(* Variant: the config is read from the attribute get_graph_json reads. *)
save_executor_config_repr ==
    /\ cls = "Graph"
    /\ Reads("save_executor_config", GetAttr("internal_repr"))

save_executor_config ==
    /\ cls = "Graph"
    /\ Reads("save_executor_config", GetAttr("graph"))

get_graph_json ==
    /\ cls = "Graph"
    /\ Reads("get_graph_json", GetAttr("internal_repr"))

(* Variant: the keyword options are not forwarded. *)
ExportLibrary_noOptions(file_name, fcompile, addons, kwargs) ==
    /\ factory
    /\ cls = "Graph"
    /\ Len(ModuleCalls) < MaxModuleCalls
    /\ call' = Call("export_library", <<file_name, fcompile, addons>>, kwargs)
    /\ calls' = Append(calls,
                       Event("export_library", self.module,
                             <<file_name, Default(fcompile), Default(addons)>>, NoKw))
    /\ ret' = Result("export_library",
                     ModuleExport(self.module, file_name, Default(fcompile),
                                  Default(addons), NoKw))
    /\ UNCHANGED <<cls, self, factory, given, registered>>

ExportLibrary(file_name, fcompile, addons, kwargs) ==
    /\ factory
    /\ cls = "Graph"
    /\ Len(ModuleCalls) < MaxModuleCalls
    /\ call' = Call("export_library", <<file_name, fcompile, addons>>, kwargs)
    /\ IF GetAttr("module").status = "raise"
       THEN /\ calls' = calls
            /\ ret' = Result("export_library", GetAttr("module"))
       ELSE /\ calls' = Append(calls,
                               Event("export_library", self.module,
                                     <<file_name, Default(fcompile), Default(addons)>>,
                                     kwargs))
            /\ ret' = Result("export_library",
                             ModuleExport(self.module, file_name, Default(fcompile),
                                          Default(addons), kwargs))
    /\ UNCHANGED <<cls, self, factory, given, registered>>

export_library ==
    \E file_name \in FileNames, fcompile \in FCompiles, addons \in AddonsArgs,
       kwargs \in Options :
        ExportLibrary(file_name, fcompile, addons, kwargs)

(* Variant: the lookup goes to the library handle, not to the live module. *)
GetItem_onLib(item) ==
    /\ factory
    /\ cls = "Graph"
    /\ Len(ModuleCalls) < MaxModuleCalls
    /\ call' = Call("__getitem__", <<item>>, NoKw)
    /\ calls' = Append(calls, Event("__getitem__", self.lib, <<item>>, NoKw))
    /\ ret' = Result("__getitem__", ModuleGetItem(self.lib, item))
    /\ UNCHANGED <<cls, self, factory, given, registered>>

GetItem(item) ==
    /\ factory
    /\ cls = "Graph"
    /\ Len(ModuleCalls) < MaxModuleCalls
    /\ call' = Call("__getitem__", <<item>>, NoKw)
    /\ IF GetAttr("module").status = "raise"
       THEN /\ calls' = calls
            /\ ret' = Result("__getitem__", GetAttr("module"))
       ELSE /\ calls' = Append(calls, Event("__getitem__", self.module, <<item>>, NoKw))
            /\ ret' = Result("__getitem__", ModuleGetItem(self.module, item))
    /\ UNCHANGED <<cls, self, factory, given, registered>>

getitem == \E item \in ItemKeys : GetItem(item)

Next ==
    \/ AOT_init
    \/ Graph_init
    \/ get_params
    \/ get_internal_repr
    \/ get_lib
    \/ save_executor_config
    \/ get_graph_json
    \/ export_library
    \/ getitem

Spec == Init /\ [][Next]_vars

-----------------------------------------------------------------------------
(* Properties. P, G, L, N are the constructor's arguments as the caller     *)
(* supplied them.                                                           *)

P == given.params

G == given.repr

L == given.libmod

N == given.libmod_name

IsCreate(e) == e.fn = CreateName.data

IsLookup(e) == e.fn = "get_global_func"

IsConv(e) == e.fn = "ndarray.array"

IsCtorCall(e) == ~IsModuleCall(e)

CtorCalls == SelectSeq(calls, IsCtorCall)

SetAttrs == {a \in Attrs : self[a] # Unset}

GraphAttrs ==
    {"ir_mod", "target", "module", "graph", "lib", "libmod_name", "params", "iter_cnt"}

(* C1: after a successful construction with params = P, both variants keep  *)
(* P itself as their params field, and every get_params() returns exactly   *)
(* P: the keys and the values as supplied, not the converted arrays.        *)
C1_GetParamsReturnsP ==
    factory =>
        /\ self.params = P
        /\ ret.op = "get_params" => ret = Return("get_params", P)

C1_Witness ==
    /\ factory
    /\ cls = "Graph"
    /\ ret.op = "get_params"
    /\ ret.val = P
    /\ Len(P.items) = 2
    /\ \E i \in 1..2 : P.items[i][2].type = "NDArray"
    /\ ModuleCalls # <<>>

(* C2: the create function is invoked with exactly 3 + 2n arguments: G, L,  *)
(* N, then alternately a key of P and the native-array conversion of that   *)
(* key's value, every key of P exactly once; a constructed graph factory    *)
(* has invoked it exactly once.                                             *)
C2_CreateArguments ==
    /\ \A i \in 1..Len(calls) :
         IsCreate(calls[i]) =>
            LET a == calls[i].args
                n == Len(P.items)
            IN /\ cls = "Graph"
               /\ Len(a) = 3 + 2 * n
               /\ a[1] = G /\ a[2] = L /\ a[3] = N
               /\ \A j \in 1..n :
                    \E m \in 1..n :
                       /\ a[2 + 2 * j] = P.items[m][1]
                       /\ a[3 + 2 * j] = NdArray(P.items[m][2])
               /\ \A m \in 1..n :
                    Cardinality({j \in 1..n : a[2 + 2 * j] = P.items[m][1]}) = 1
    /\ factory /\ cls = "Graph" =>
         Cardinality({i \in 1..Len(calls) : IsCreate(calls[i])}) = 1

C2_Witness ==
    /\ factory
    /\ cls = "Graph"
    /\ Len(P.items) = 2
    /\ P.items[1][2] # P.items[2][2]
    /\ \E i \in 1..Len(calls) : IsCreate(calls[i]) /\ Len(calls[i].args) = 7

(* C3: get_graph_json() on a constructed graph factory returns G, without   *)
(* raising.                                                                 *)
C3_GetGraphJsonReturnsG ==
    factory /\ cls = "Graph" /\ ret.op = "get_graph_json" =>
        ret = Return("get_graph_json", G)

(* C4: a constructed graph factory keeps G as its graph, and                *)
(* get_internal_repr() and save_executor_config() both return G unchanged,  *)
(* on every call, whatever was called before.                               *)
C4_GraphRoundTrip ==
    factory /\ cls = "Graph" =>
        /\ self.graph = G
        /\ ret.op \in {"get_internal_repr", "save_executor_config"} =>
              ret = Return(ret.op, G)

C4_Witness ==
    /\ factory
    /\ cls = "Graph"
    /\ ret = Return("save_executor_config", G)
    /\ ModuleCalls # <<>>

(* C5: constructing a graph factory with a graph description that is not a  *)
(* string fails with the assertion's error and yields no factory, whatever  *)
(* the other arguments and whether or not the create function is            *)
(* registered.                                                              *)
C5_NonStringGraphFails ==
    cls = "Graph" /\ G.type # "str" =>
        /\ ~factory
        /\ ret = Raise("__init__", "AssertionError")
        /\ SetAttrs = {}

C5_Witness ==
    /\ cls = "Graph"
    /\ G.type = "int"
    /\ registered
    /\ P.type = "dict"
    /\ AllConvertible(P.items)
    /\ ret.status = "raise"

(* C6: constructing an ahead-of-time factory with a runner that is not a    *)
(* PrimFunc fails with the assertion's error, before any parameter is       *)
(* converted, and yields no factory, whatever the other arguments.          *)
C6_NonPrimFuncRunnerFails ==
    cls = "AOT" /\ G.type # "PrimFunc" =>
        /\ ~factory
        /\ ret = Raise("__init__", "AssertionError")
        /\ calls = <<>>
        /\ SetAttrs = {}

C6_Witness ==
    /\ cls = "AOT"
    /\ G.type = "str"
    /\ P.type = "dict"
    /\ Len(P.items) = 2
    /\ ~AllConvertible(P.items)
    /\ ret.exc = "AssertionError"

(* The step C7 is about. *)
C7_ExportStep ==
    (vars' # vars /\ call'.op = "export_library") =>
        LET fc == IF call'.args[2] = Omitted THEN None ELSE call'.args[2]
            ad == IF call'.args[3] = Omitted THEN None ELSE call'.args[3]
        IN /\ calls' = Append(calls, Event("export_library", self.module,
                                           <<call'.args[1], fc, ad>>, call'.kwargs))
           /\ ret' = Result("export_library",
                            ModuleExport(self.module, call'.args[1], fc, ad, call'.kwargs))
           /\ self' = self
           /\ factory' = factory

(* C7: export_library makes exactly one call to the live module's export    *)
(* operation, with the file_name, fcompile, addons and options it received  *)
(* (None for an omitted fcompile or addons), returns or raises exactly what *)
(* that call returns or raises, and leaves the factory's fields unchanged.  *)
C7_ExportDelegates == [][C7_ExportStep]_vars

C7_Witness ==
    /\ call.op = "export_library"
    /\ call.args[2] = Omitted
    /\ call.args[3] # Omitted
    /\ call.kwargs # NoKw
    /\ ret.status = "return"
    /\ ret.val = call.args[1]

(* The step C8 is about. *)
C8_GetItemStep ==
    (vars' # vars /\ call'.op = "__getitem__") =>
        LET m == CreateModule(G, L, N, FlattenArgs(P.items))
            k == call'.args[1]
        IN /\ calls' = Append(calls, Event("__getitem__", m, <<k>>, NoKw))
           /\ ret' = Result("__getitem__", ModuleGetItem(m, k))
           /\ self' = self

(* C8: factory[k] asks the module handle obtained at construction for k and *)
(* returns exactly what it returns; an error it raises reaches the caller.  *)
C8_GetItemDelegates == [][C8_GetItemStep]_vars

C8_Witness ==
    /\ call = Call("__getitem__", <<Str("missing")>>, NoKw)
    /\ ret = Raise("__getitem__", "AttributeError")

(* The step C9 is about. *)
C9_GetterStep ==
    (vars' # vars /\ call'.op \in {"get_internal_repr", "get_params", "get_lib"}) =>
        /\ self' = self
        /\ calls' = calls
        /\ factory' = factory
        /\ cls' = cls
        /\ call'.op = "get_lib" => ret' = Return("get_lib", L)

(* C9: get_internal_repr(), get_params() and get_lib() change no field of   *)
(* the factory and call neither the registry, the create function nor the   *)
(* live module, in either variant; get_lib() returns L.                     *)
C9_GettersHaveNoSideEffects == [][C9_GetterStep]_vars

C9_Witness ==
    /\ factory
    /\ cls = "AOT"
    /\ ret = Return("get_lib", L)
    /\ SetAttrs = Attrs \ {"module", "graph", "internal_repr"}

(* The order of the construction's external calls: the registry lookup,     *)
(* then one conversion per parameter, in the mapping's order, up to the     *)
(* first that fails, then the create function, called only when the lookup  *)
(* and every conversion succeeded, and at most once.                        *)
C10_Order ==
    LET c == CtorCalls
        n == IF P.type = "dict" THEN Len(P.items) ELSE 0
        convs == SelectSeq(c, IsConv)
        creates == SelectSeq(c, IsCreate)
    IN /\ G.type # "str" => c = <<>>
       /\ G.type = "str" => c # <<>> /\ c = <<c[1]>> \o convs \o creates /\ IsLookup(c[1])
       /\ ~registered => Len(c) <= 1
       /\ Len(convs) <= n
       /\ \A i \in 1..Len(convs) :
             /\ convs[i].args = <<P.items[i][2]>>
             /\ i < Len(convs) => Convertible(P.items[i][2])
       /\ Len(creates) <= 1
       /\ creates # <<>> =>
             /\ Len(convs) = n
             /\ P.type = "dict"
             /\ \A i \in 1..n : Convertible(P.items[i][2])
       /\ factory => Len(creates) = 1

(* C10 as claimed: graph construction is all-or-nothing, its steps in the   *)
(* order check, lookup, conversions, create, storing of the fields, so that *)
(* a failed construction has set no field, and a constructed factory has    *)
(* all its fields set.                                                      *)
C10_AllOrNothing ==
    cls = "Graph" =>
        /\ C10_Order
        /\ factory => SetAttrs = GraphAttrs
        /\ ~factory => SetAttrs = {}

(* C10 as the code has it: ir_mod and target are stored before the create   *)
(* function is invoked, the other fields after it; a failed construction    *)
(* yields no factory and has set no field, except ir_mod and target when    *)
(* the step that failed is the create function's call.                      *)
C10_AllOrNothingButIrModTarget ==
    cls = "Graph" =>
        /\ C10_Order
        /\ factory => SetAttrs = GraphAttrs
        /\ ~factory =>
              SetAttrs = IF \E i \in 1..Len(calls) : IsCreate(calls[i])
                         THEN {"ir_mod", "target"}
                         ELSE {}

C10_Witness ==
    /\ cls = "Graph"
    /\ ~factory
    /\ ret = Raise("__init__", "TVMError")
    /\ Len(P.items) = 2
    /\ SetAttrs = {"ir_mod", "target"}

====
